---- MODULE Spec2Model ----
(***************************************************************************)
(* Voice interaction pipeline of the presentation assistant.               *)
(*                                                                         *)
(*   SpecVoice : VoicePanel + useVoiceRAG (manual capture, text questions) *)
(*   SpecChat  : AIChatPanel + useAmbientListener (ambient capture,        *)
(*               auto-reply gate, queryAI)                                 *)
(*   SpecAmbient : useAmbientListener with the cycles its entries start,   *)
(*               the other buttons of AIChatPanel left alone               *)
(*   SpecPage  : PresentContent (the deck and the active slide index)      *)
(*   SpecProxy : the API proxy route (GET, POST, DELETE)                   *)
(*   the other specifications restrict or combine these                    *)
(*                                                                         *)
(* Every await of the source is a suspension point: the part of an async   *)
(* function before an await and the part after it are separate actions,    *)
(* and the awaited collaborator's answer is the input of the second one.   *)
(* JavaScript strings are sequences of one-character strings, so that      *)
(* String.prototype.trim is computed and not assumed.                      *)
(***************************************************************************)
EXTENDS Integers, Sequences, FiniteSets, TLC

\* ------------------------------------------------------------------ values

\* A ref that holds null (useRef(null)); objects are numbered from 1.
Null == 0

\* JavaScript `undefined` where a text is expected (a destructured field the
\* response body does not have). Not a member of any text domain below.
Undefined == <<"undefined">>

\* The question / transcript texts the collaborators and the user can produce:
\* the empty text, a whitespace-only text and a text with words in it.
Texts == { <<>>, <<" ">>, <<"a">> }

\* The answers the retrieval collaborator can put in a success body ({answer: string}).
Answers == { <<>>, <<"x">> }

\* Sizes in bytes of the data a MediaRecorder delivers when it is stopped.
SegSizes == { 0, 500, 2000 }

\* Math.min and Math.max of two numbers.
Min(a, b) == IF a < b THEN a ELSE b

Max(a, b) == IF a > b THEN a ELSE b

\* blob.size < 1000: the smallest segment that is transcribed.
MinBytes == 1000

\* entries.slice(-10): the entries that make the discussion context.
CtxWindow == 10

\* ------------------------------------------------------------------ bounds

\* useVoiceRAG: capture sessions and answer cycles started in one behaviour.
MaxRuns == 2

\* AIChatPanel: queryAI cycles started in one behaviour.
MaxChatRuns == 2

\* useAmbientListener: recorders (segments) created in one behaviour.
MaxRecorders == 2

\* VoicePanel on its own: answers handed to onAnswer in one behaviour.
MaxAnswers == 6

\* Date.now(): the readings go from 0 to this one.
MaxClock == 2

\* PresentContent: the slides of the largest deck that cd_slides holds.
MaxSlides == 7

\* API proxy route: the requests received in one behaviour.
MaxRequests == 2

\* ------------------------------------------------------- String.prototype.trim

RECURSIVE TrimStart(_)
TrimStart(s) ==
    IF s = <<>> THEN s
    ELSE IF Head(s) = " " THEN TrimStart(Tail(s)) ELSE s

RECURSIVE TrimEnd(_)
TrimEnd(s) ==
    IF s = <<>> THEN s
    ELSE IF s[Len(s)] = " " THEN TrimEnd(SubSeq(s, 1, Len(s) - 1)) ELSE s

Trim(s) == TrimEnd(TrimStart(s))

\* JavaScript truthiness of a text value: undefined and "" are falsy.
Truthy(s) == s # Undefined /\ s # <<>>

\* ------------------------------------------------------------------ state

VARIABLES
    \* useVoiceRAG (useVoiceRAG.ts:17-25)
    state,              \* useState<VoiceState>
    transcript,         \* useState("")
    answer,             \* useState("")
    sources,            \* useState<any[]>([])
    error,              \* useState("")
    mediaRecorderRef,   \* index into vrRecorders, or Null
    audioChunksRef,     \* total size of the Blob[] held by the ref
    audioRef,           \* index into vrRuns of the run whose Audio it holds, or Null
    \* environment of useVoiceRAG
    vrMic,              \* startListening calls suspended at getUserMedia
    vrMicCapt,          \* of each of them, the transcript of the render whose
                        \* startListening it is (read by that render's onAnswer)
    vrRecorders,        \* the MediaRecorders created, in creation order
    vrRuns,             \* the processAudio / askText invocations, in call order
    \* the VoicePanel handler that ran last, or "event" for a collaborator's or
    \* the browser's event ("micDenied" for a refused microphone request)
    lastOp,
    \* VoicePanel (part_002:21-23)
    history,            \* useState<{ q: string; a: string }[]>([])
    nRecorded,          \* the pairs recorded in history so far, evicted or not
    \* PresentContent (present/page.tsx:184-187)
    slides,             \* useState<any[]>([]), each slide by its id
    activeIdx,          \* useState(0)
    showPanel,          \* useState(true)
    themeName,          \* useState("professional")
    pcEffects,          \* the effects of the first render have run
    \* API proxy route (part_001)
    pxCalls,            \* the invocations of GET, POST and DELETE, in call order
    \* AIChatPanel (part_003:22-42)
    language,           \* useState<"en" | "hi">("en")
    autoReply,          \* useState(true)
    isThinking,         \* useState(false)
    isThinkingRef,      \* useRef(false), copied from isThinking by an effect
    tcAutoReply,        \* autoReply as captured by the memoized transcribeChunk
    oteEntries,         \* entries as captured by the memoized onTranscriptEntry
                        \* (through handleAutoReply, queryAI, getDiscussionContext)
    tcEntries,          \* the same, of the onTranscriptEntry that the memoized
                        \* transcribeChunk captured
    mounted,            \* this AIChatPanel instance is the one on the page
    chatRuns,           \* the queryAI invocations, in call order
    messages,           \* useState<ChatMessage[]>([])
    gate,               \* of the entry published last: the toggle, the cycles'
                        \* phase and isListening as it was published, and whether
                        \* it was forwarded
    \* useAmbientListener (useAmbientListener.ts:17-24)
    isListening,        \* useState(false)
    entries,            \* useState<TranscriptEntry[]>([])
    streamRef,          \* index into alStreams, or Null
    recorderRef,        \* index into alRecorders, or Null
    chunksRef,          \* total size of the Blob[] held by the ref
    intervalRef,        \* the interval's id, or Null
    idCounter,          \* useRef(0)
    \* environment of useAmbientListener
    alMic,              \* startListening calls suspended at getUserMedia
    alStreams,          \* the MediaStreams acquired, in order
    alRecorders,        \* the MediaRecorders created, in order
    alTimers,           \* the ids of the intervals that are set
    alStt               \* the requests posted to /api/voice/transcribe, in order

voiceVars == << state, transcript, answer, sources, error, mediaRecorderRef,
                audioChunksRef, audioRef, vrMic, vrMicCapt, vrRecorders, vrRuns >>

chatVars == << language, autoReply, isThinking, isThinkingRef, tcAutoReply, oteEntries,
               tcEntries, mounted, chatRuns, messages, gate >>

ambientVars == << isListening, entries, streamRef, recorderRef, chunksRef, intervalRef,
                  idCounter, alMic, alStreams, alRecorders, alTimers, alStt >>

panelVars == << history, nRecorded >>

pageVars == << slides, activeIdx, showPanel, themeName, pcEffects >>

vars == << voiceVars, panelVars, pageVars, pxCalls, lastOp, chatVars, ambientVars >>

\* ------------------------------------------------------------- useVoiceRAG

Init ==
    /\ lastOp = "init"
    /\ state = "idle"
    /\ transcript = <<>>
    /\ answer = <<>>
    /\ sources = <<>>
    /\ error = ""
    /\ mediaRecorderRef = Null
    /\ audioChunksRef = 0
    /\ audioRef = Null
    /\ vrMic = 0
    /\ vrMicCapt = <<>>
    /\ vrRecorders = <<>>
    /\ vrRuns = <<>>
    /\ history = <<>>
    /\ nRecorded = 0
    /\ slides = <<>>
    /\ activeIdx = 0
    /\ showPanel = TRUE
    /\ themeName = "professional"
    /\ pcEffects = FALSE
    /\ pxCalls = <<>>
    /\ language = "en"
    /\ autoReply = TRUE
    /\ isThinking = FALSE
    /\ isThinkingRef = FALSE
    /\ tcAutoReply = TRUE
    /\ oteEntries = <<>>
    /\ tcEntries = <<>>
    /\ mounted = TRUE
    /\ chatRuns = <<>>
    /\ messages = <<>>
    /\ gate = [ n |-> 0, toggle |-> TRUE, phase |-> "idle", forwarded |-> FALSE,
                listening |-> FALSE ]
    /\ isListening = FALSE
    /\ entries = <<>>
    /\ streamRef = Null
    /\ recorderRef = Null
    /\ chunksRef = 0
    /\ intervalRef = Null
    /\ idCounter = 0
    /\ alMic = <<>>
    /\ alStreams = <<>>
    /\ alRecorders = <<>>
    /\ alTimers = {}
    /\ alStt = <<>>

\* Capture sessions and cycles begun so far that have produced or can still
\* produce a run: the bound of the model is on their number.
VrBudget ==
    Len(vrRuns) + vrMic
      + Cardinality({ k \in DOMAIN vrRecorders : vrRecorders[k].st # "inactive" })

\* A run with an outstanding collaborator request or with audio that is playing.
VrActive(r) ==
    \/ vrRuns[r].pc \in { "stt", "rag", "tts" }
    \/ vrRuns[r].audio = "playing"

\* startListening, up to its await of getUserMedia.
VR_startListening ==
    /\ VrBudget < MaxRuns
    /\ error' = ""
    /\ answer' = <<>>
    /\ transcript' = <<>>
    /\ vrMic' = vrMic + 1
    /\ vrMicCapt' = Append(vrMicCapt, transcript)
    /\ UNCHANGED << state, sources, mediaRecorderRef, audioChunksRef, audioRef,
                    vrRecorders, vrRuns >>

\* A sequence without its i-th element.
RemoveAt(seq, i) == SubSeq(seq, 1, i - 1) \o SubSeq(seq, i + 1, Len(seq))

\* startListening after getUserMedia resolved: a recorder is created and
\* started; its onstop is a closure of the render of this startListening.
VR_micGranted(i) ==
    /\ vrMic' = vrMic - 1
    /\ vrMicCapt' = RemoveAt(vrMicCapt, i)
    /\ vrRecorders' = Append(vrRecorders, [ st |-> "recording", capt |-> vrMicCapt[i] ])
    /\ mediaRecorderRef' = Len(vrRecorders) + 1
    /\ audioChunksRef' = 0
    /\ state' = "listening"
    /\ lastOp' = "event"
    /\ UNCHANGED << transcript, answer, sources, error, audioRef,
                    vrRuns, history, nRecorded >>

\* A catch that only logs, as the one of useAmbientListener does.
VR_micDenied_Silent(i) ==
    /\ vrMic' = vrMic - 1
    /\ vrMicCapt' = RemoveAt(vrMicCapt, i)
    /\ lastOp' = "micDenied"
    /\ UNCHANGED << state, error, transcript, answer, sources, mediaRecorderRef,
                    audioChunksRef, audioRef, vrRecorders, vrRuns, history, nRecorded >>

\* startListening after getUserMedia rejected.
VR_micDenied(i) ==
    /\ vrMic' = vrMic - 1
    /\ vrMicCapt' = RemoveAt(vrMicCapt, i)
    /\ error' = "Microphone access denied"
    /\ state' = "error"
    /\ lastOp' = "micDenied"
    /\ UNCHANGED << transcript, answer, sources, mediaRecorderRef, audioChunksRef,
                    audioRef, vrRecorders, vrRuns, history, nRecorded >>

VR_stopListening ==
    IF mediaRecorderRef # Null /\ vrRecorders[mediaRecorderRef].st = "recording"
    THEN /\ vrRecorders' = [ vrRecorders EXCEPT ![mediaRecorderRef].st = "stopping" ]
         /\ state' = "thinking"
         /\ UNCHANGED << transcript, answer, sources, error, mediaRecorderRef,
                         audioChunksRef, audioRef, vrMic, vrMicCapt, vrRuns >>
    ELSE UNCHANGED voiceVars

\* A new processAudio run, suspended at the fetch of /api/voice/transcribe.
VR_processAudio(blobSize, capt) ==
    /\ state' = "thinking"
    /\ vrRuns' = Append(vrRuns, [ kind |-> "audio", pc |-> "stt", blob |-> blobSize,
                                  stt |-> "none", q |-> <<>>, rag |-> "none",
                                  audio |-> "none", capt |-> capt ])

\* The stopped recorder's dataavailable and stop events: the data is pushed when
\* it is not empty, the tracks are stopped and the blob goes to processAudio.
VR_recorderOnStop(k, size) ==
    /\ vrRecorders[k].st = "stopping"
    /\ vrRecorders' = [ vrRecorders EXCEPT ![k].st = "inactive", ![k].capt = <<>> ]
    /\ audioChunksRef' = IF size > 0 THEN audioChunksRef + size ELSE audioChunksRef
    /\ VR_processAudio(audioChunksRef', vrRecorders[k].capt)
    /\ lastOp' = "event"
    /\ UNCHANGED panelVars
    /\ UNCHANGED << transcript, answer, sources, error, mediaRecorderRef, audioRef,
                    vrMic, vrMicCapt >>

\* catch (e) { setError(e.message); setState("error") } of processAudio and askText.
VR_catch(r, message) ==
    /\ error' = message
    /\ state' = "error"
    /\ vrRuns' = [ vrRuns EXCEPT ![r].pc = "done" ]

\* The same catch, entered from the retrieval response (whose status is kept in
\* the run's record).
VR_catchRag(r, message) ==
    /\ error' = message
    /\ state' = "error"
    /\ vrRuns' = [ vrRuns EXCEPT ![r].pc = "done", ![r].rag = "fail",
                                  ![r].capt = <<>> ]
    /\ UNCHANGED panelVars

\* The transcription collaborator's responses: a failure, or {transcript: text}.
SttResponses ==
    { [ ok |-> FALSE, text |-> <<>> ] } \cup { [ ok |-> TRUE, text |-> t ] : t \in Texts }

\* The test written without the trim.
VR_noSpeech_NoTrim(text) == text = <<>>

\* !text.trim()
VR_noSpeech(text) == Trim(text) = <<>>

\* processAudio from the transcription response to the retrieval request. The
\* run's blob field is the size of the blob in its outstanding transcription
\* request: the blob is gone once the response is there. Its stt field keeps
\* the status of the response.
VR_sttResponse(r, resp) ==
    /\ vrRuns[r].kind = "audio" /\ vrRuns[r].pc = "stt"
    /\ lastOp' = "event"
    /\ UNCHANGED panelVars
    /\ IF ~resp.ok
       THEN /\ error' = "Transcription failed"
            /\ state' = "error"
            /\ vrRuns' = [ vrRuns EXCEPT ![r].pc = "done", ![r].blob = 0,
                                          ![r].stt = "fail", ![r].capt = <<>> ]
            /\ UNCHANGED << transcript, answer, sources >>
       ELSE /\ transcript' = resp.text
            /\ IF VR_noSpeech(resp.text)
               THEN /\ state' = "idle"
                    /\ vrRuns' = [ vrRuns EXCEPT ![r].pc = "done", ![r].blob = 0,
                                                  ![r].stt = "ok", ![r].capt = <<>> ]
               ELSE /\ vrRuns' = [ vrRuns EXCEPT ![r].pc = "rag", ![r].blob = 0,
                                                 ![r].stt = "ok", ![r].q = resp.text ]
                    /\ UNCHANGED state
            /\ UNCHANGED << answer, sources, error >>
    /\ UNCHANGED << mediaRecorderRef, audioChunksRef, audioRef, vrMic, vrMicCapt,
                    vrRecorders >>

\* The retrieval collaborator's responses: a success body {answer, sources}; a
\* failure whose body is JSON without those fields (the proxy's
\* {error: "Backend unreachable"}); a failure whose body is not JSON.
RagResponses ==
    { [ ok |-> TRUE, json |-> TRUE, answer |-> a, sources |-> s ] :
        a \in Answers, s \in { <<"s1">> } }
    \cup { [ ok |-> FALSE, json |-> TRUE, answer |-> Undefined, sources |-> Undefined ],
           [ ok |-> FALSE, json |-> FALSE, answer |-> Undefined, sources |-> Undefined ] }

\* history.slice(0, 5): the pairs that are kept.
HistoryCap == 5

\* The update without the slice.
VP_pushHistory_Unbounded(p, q, a) == << [ q |-> q, a |-> a ] >> \o p

\* p => [{ q, a }, ...p].slice(0, 5)
VP_pushHistory(p, q, a) ==
    LET all == << [ q |-> q, a |-> a ] >> \o p
    IN  SubSeq(all, 1, IF Len(all) < HistoryCap THEN Len(all) ELSE HistoryCap)

\* onAnswer of VoicePanel, a closure of one render: `transcript` is the
\* transcript of that render.
VP_onAnswer(capt, a) ==
    IF Truthy(capt)
    THEN /\ history' = VP_pushHistory(history, capt, a)
         /\ nRecorded' = nRecorded + 1
    ELSE UNCHANGED panelVars

\* setAnswer; setSources; opts.onAnswer; setState("speaking"); the fetch of
\* /api/voice/speak. opts is the one the run's closure holds.
VR_toSpeaking(r, resp) ==
    /\ answer' = resp.answer
    /\ sources' = resp.sources
    /\ VP_onAnswer(vrRuns[r].capt, resp.answer)
    /\ state' = "speaking"
    /\ vrRuns' = [ vrRuns EXCEPT ![r].pc = "tts",
                                  ![r].rag = IF resp.ok THEN "ok" ELSE "fail",
                                  ![r].capt = <<>> ]
    /\ UNCHANGED error

\* processAudio from the retrieval response on: the response is checked.
VR_ragResponseAudio(r, resp) ==
    IF ~resp.ok
    THEN VR_catchRag(r, "RAG query failed") /\ UNCHANGED << answer, sources >>
    ELSE VR_toSpeaking(r, resp)

\* askText from the retrieval response on: the body is parsed whatever the status.
VR_ragResponseText(r, resp) ==
    IF ~resp.json
    THEN VR_catchRag(r, "Unexpected token") /\ UNCHANGED << answer, sources >>
    ELSE VR_toSpeaking(r, resp)

VR_ragResponse(r, resp) ==
    /\ vrRuns[r].pc = "rag"
    /\ lastOp' = "event"
    /\ IF vrRuns[r].kind = "audio"
       THEN VR_ragResponseAudio(r, resp)
       ELSE VR_ragResponseText(r, resp)
    /\ UNCHANGED << transcript, mediaRecorderRef, audioChunksRef, audioRef,
                    vrMic, vrMicCapt, vrRecorders >>

\* The synthesis collaborator's responses: ok or not, and whether audio.play()
\* of the body resolves (a failure body is not playable audio).
TtsResponses ==
    { [ ok |-> TRUE, plays |-> TRUE ], [ ok |-> TRUE, plays |-> FALSE ],
      [ ok |-> FALSE, plays |-> FALSE ] }

\* processAudio / askText from the synthesis response on. processAudio throws
\* on a failure status; askText builds the Audio from whatever body it got.
VR_ttsResponse(r, resp) ==
    /\ vrRuns[r].pc = "tts"
    /\ lastOp' = "event"
    /\ UNCHANGED panelVars
    /\ IF vrRuns[r].kind = "audio" /\ ~resp.ok
       THEN /\ VR_catch(r, "TTS failed")
            /\ UNCHANGED audioRef
       ELSE /\ audioRef' = r
            /\ IF resp.plays
               THEN /\ vrRuns' = [ vrRuns EXCEPT ![r].pc = "playing",
                                                 ![r].audio = "playing" ]
                    /\ UNCHANGED << state, error >>
               ELSE VR_catch(r, "play() failed")
    /\ UNCHANGED << transcript, answer, sources, mediaRecorderRef, audioChunksRef,
                    vrMic, vrMicCapt, vrRecorders >>

\* An onended that leaves state as it is.
VR_audioEnded_StaysSpeaking(r) ==
    /\ vrRuns[r].audio = "playing"
    /\ UNCHANGED panelVars
    /\ vrRuns' = [ vrRuns EXCEPT ![r].pc = "done", ![r].audio = "ended" ]
    /\ lastOp' = "event"
    /\ UNCHANGED << state, transcript, answer, sources, error, mediaRecorderRef,
                    audioChunksRef, audioRef, vrMic, vrMicCapt, vrRecorders >>

\* audio.onended: both kinds of run set state to idle.
VR_audioEnded(r) ==
    /\ vrRuns[r].audio = "playing"
    /\ UNCHANGED panelVars
    /\ vrRuns' = [ vrRuns EXCEPT ![r].pc = "done", ![r].audio = "ended" ]
    /\ state' = "idle"
    /\ lastOp' = "event"
    /\ UNCHANGED << transcript, answer, sources, error, mediaRecorderRef,
                    audioChunksRef, audioRef, vrMic, vrMicCapt, vrRecorders >>

\* audio.onerror: processAudio rejects its promise; askText sets no handler.
VR_audioError(r) ==
    /\ vrRuns[r].audio = "playing"
    /\ UNCHANGED panelVars
    /\ lastOp' = "event"
    /\ IF vrRuns[r].kind = "audio"
       THEN /\ error' = "Audio playback failed"
            /\ state' = "error"
       ELSE UNCHANGED << error, state >>
    /\ vrRuns' = [ vrRuns EXCEPT ![r].pc = "done", ![r].audio = "failed" ]
    /\ UNCHANGED << transcript, answer, sources, mediaRecorderRef, audioChunksRef,
                    audioRef, vrMic, vrMicCapt, vrRecorders >>

\* askText up to its await of the fetch of /api/rag/query.
VR_askText(question) ==
    IF Trim(question) = <<>>
    THEN UNCHANGED << state, answer, sources, transcript, vrRuns >>
    ELSE /\ state' = "thinking"
         /\ answer' = <<>>
         /\ sources' = <<>>
         /\ transcript' = question
         /\ vrRuns' = Append(vrRuns, [ kind |-> "text", pc |-> "rag", blob |-> 0,
                                       stt |-> "none", q |-> question, rag |-> "none",
                                       audio |-> "none", capt |-> transcript ])

\* stopSpeaking written as reset is: the answer is cleared with the playback.
VR_stopSpeaking_Clearing ==
    /\ state' = "idle"
    /\ answer' = <<>>
    /\ vrRuns' = IF audioRef # Null /\ vrRuns[audioRef].audio = "playing"
                 THEN [ vrRuns EXCEPT ![audioRef].audio = "paused" ]
                 ELSE vrRuns
    /\ UNCHANGED << transcript, sources, error, mediaRecorderRef, audioChunksRef,
                    audioRef, vrMic, vrMicCapt, vrRecorders >>

\* audioRef.current?.pause(); setState("idle"). A paused Audio never ends.
VR_stopSpeaking ==
    /\ state' = "idle"
    /\ vrRuns' = IF audioRef # Null /\ vrRuns[audioRef].audio = "playing"
                 THEN [ vrRuns EXCEPT ![audioRef].audio = "paused" ]
                 ELSE vrRuns
    /\ UNCHANGED << transcript, answer, sources, error, mediaRecorderRef,
                    audioChunksRef, audioRef, vrMic, vrMicCapt, vrRecorders >>

\* -------------------------------------------------------------- VoicePanel

VP_handleMicClick ==
    /\ lastOp' = "handleMicClick"
    /\ UNCHANGED panelVars
    /\ IF state \in { "idle", "error" } THEN VR_startListening
       ELSE IF state = "listening" THEN VR_stopListening
       ELSE IF state = "speaking" THEN VR_stopSpeaking
       ELSE UNCHANGED voiceVars

\* handleTextAsk without the test of state.
VP_handleTextAsk_NoStateGate(textInput) ==
    /\ UNCHANGED panelVars
    /\ lastOp' = IF Trim(textInput) = <<>> THEN lastOp ELSE "handleTextAsk"
    /\ IF Trim(textInput) = <<>>
       THEN UNCHANGED voiceVars
       ELSE /\ VrBudget < MaxRuns
            /\ VR_askText(textInput)
            /\ UNCHANGED << error, mediaRecorderRef, audioChunksRef, audioRef, vrMic, vrMicCapt,
                            vrRecorders >>

\* handleTextAsk with the text the user typed in the input (textInput) as its
\* input; the field is emptied once the question is taken. A submission of
\* nothing changes nothing and is not recorded in lastOp.
VP_handleTextAsk(textInput) ==
    /\ UNCHANGED panelVars
    /\ lastOp' = IF Trim(textInput) = <<>> THEN lastOp ELSE "handleTextAsk"
    /\ IF Trim(textInput) = <<>> \/ state # "idle"
       THEN UNCHANGED voiceVars
       ELSE /\ VrBudget < MaxRuns
            /\ VR_askText(textInput)
            /\ UNCHANGED << error, mediaRecorderRef, audioChunksRef, audioRef, vrMic, vrMicCapt,
                            vrRecorders >>

\* AIChatPanel, useAmbientListener, PresentContent and the proxy route take no
\* step.
ChatIdle == UNCHANGED << chatVars, ambientVars, pageVars, pxCalls >>

VoiceNext ==
    \/ VP_handleMicClick /\ ChatIdle
    \/ \E t \in Texts : VP_handleTextAsk(t) /\ ChatIdle
    \/ \E i \in DOMAIN vrMicCapt : VR_micGranted(i) /\ ChatIdle
    \/ \E i \in DOMAIN vrMicCapt : VR_micDenied(i) /\ ChatIdle
    \/ \E k \in DOMAIN vrRecorders : \E size \in SegSizes :
          VR_recorderOnStop(k, size) /\ ChatIdle
    \/ \E r \in DOMAIN vrRuns : \E resp \in SttResponses :
          VR_sttResponse(r, resp) /\ ChatIdle
    \/ \E r \in DOMAIN vrRuns : \E resp \in RagResponses :
          VR_ragResponse(r, resp) /\ ChatIdle
    \/ \E r \in DOMAIN vrRuns : \E resp \in TtsResponses :
          VR_ttsResponse(r, resp) /\ ChatIdle
    \/ \E r \in DOMAIN vrRuns : VR_audioEnded(r) /\ ChatIdle
    \/ \E r \in DOMAIN vrRuns : VR_audioError(r) /\ ChatIdle

SpecVoice == Init /\ [][VoiceNext]_vars

\* ------------------------------------------------------------- AIChatPanel

\* A queryAI cycle, from its retrieval request until its answer audio has
\* finished playing.
ChatInProgress(r) == chatRuns[r].pc \in { "rag", "tts", "playing" }

\* What the cycles are doing: the answer is being played, or is being fetched.
ChatPhase ==
    IF \E r \in DOMAIN chatRuns : chatRuns[r].pc \in { "rag", "tts" } THEN "thinking"
    ELSE IF \E r \in DOMAIN chatRuns : chatRuns[r].pc = "playing" THEN "speaking"
    ELSE "idle"

\* A state setter of AIChatPanel or of its useAmbientListener: the new value
\* while the component is mounted; React drops the update of an unmounted one.
SetState(old, new) == IF mounted THEN new ELSE old

\* useEffect(() => { isThinkingRef.current = isThinking }, [isThinking]): runs
\* after the render that follows a change of isThinking. After a setIsThinking
\* made in the continuation of a fetch that is a later task of the event loop.
ACP_syncThinkingRef ==
    /\ mounted
    /\ isThinkingRef # isThinking
    /\ isThinkingRef' = isThinking
    /\ UNCHANGED << language, autoReply, isThinking, tcAutoReply, oteEntries, tcEntries,
                    mounted, chatRuns, messages, gate >>

\* getDiscussionContext over the entries it closed over: the texts of the last
\* ten, in order (joined into one string by the code; none gives no context).
GetDiscussionContext(es) ==
    LET from == IF Len(es) > CtxWindow THEN Len(es) - CtxWindow + 1 ELSE 1
    IN  [ j \in 1 .. (Len(es) - from + 1) |-> es[from + j - 1].text ]

\* The slideContext prop: the string the page made of the active slide.
SlideContext == << "JSON.stringify(activeSlide)" >>

\* texts.join(" ")
RECURSIVE Join(_)
Join(texts) ==
    IF texts = <<>> THEN <<>>
    ELSE IF Len(texts) = 1 THEN texts[1]
    ELSE texts[1] \o << " " >> \o Join(Tail(texts))

\* The slide_context field of the body queryAI posts to /api/rag/query, ctx
\* being the texts getDiscussionContext found: enrichedContext.
ACP_slideContextField(ctx) ==
    IF ctx = <<>> THEN SlideContext
    ELSE SlideContext \o << "\n\n--- Ongoing Discussion ---\n",
                            "Recent discussion transcript:\n" >> \o Join(ctx)

\* The text of errMsg.
Apology == "Sorry, something went wrong. Please try again."

\* userMsg, aiMsg and errMsg of queryAI, without their ids and timestamps; the
\* answer's text is whatever the collaborator put in data.answer.
UserMsg(question, source) ==
    [ role |-> "user", text |-> question,
      type |-> IF source = "ambient" THEN "ambient" ELSE "none" ]

AiMsg == [ role |-> "ai", text |-> "data.answer", type |-> "rag" ]

ErrMsg == [ role |-> "ai", text |-> Apology, type |-> "none" ]

\* queryAI up to its await of the retrieval request; es is the entries that the
\* getDiscussionContext of this queryAI closed over.
ACP_queryAI(question, source, es) ==
    IF Trim(question) = <<>>
    THEN UNCHANGED << isThinking, chatRuns, messages >>
    ELSE /\ Len(chatRuns) < MaxChatRuns
         /\ messages' = SetState(messages, Append(messages, UserMsg(question, source)))
         /\ isThinking' = SetState(isThinking, TRUE)
         /\ chatRuns' = Append(chatRuns, [ pc |-> "rag", source |-> source,
                                           ctx |-> GetDiscussionContext(es) ])

\* A catch that logs and appends nothing.
ACP_ragResponse_NoApology(r, ok) ==
    /\ chatRuns[r].pc = "rag"
    /\ IF ok
       THEN /\ chatRuns' = [ chatRuns EXCEPT ![r].pc = "tts" ]
            /\ messages' = SetState(messages, Append(messages, AiMsg))
            /\ UNCHANGED isThinking
       ELSE /\ chatRuns' = [ chatRuns EXCEPT ![r].pc = "done" ]
            /\ isThinking' = SetState(isThinking, FALSE)
            /\ UNCHANGED messages
    /\ UNCHANGED << language, autoReply, isThinkingRef, tcAutoReply, oteEntries,
                    tcEntries, mounted, gate >>

\* queryAI from the retrieval response on: a failure is caught, the apology is
\* appended and the function ends with setIsThinking(false); a success appends
\* the answer and goes on to the synthesis request.
ACP_ragResponse(r, ok) ==
    /\ chatRuns[r].pc = "rag"
    /\ IF ok
       THEN /\ chatRuns' = [ chatRuns EXCEPT ![r].pc = "tts" ]
            /\ messages' = SetState(messages, Append(messages, AiMsg))
            /\ UNCHANGED isThinking
       ELSE /\ chatRuns' = [ chatRuns EXCEPT ![r].pc = "done" ]
            /\ messages' = SetState(messages, Append(messages, ErrMsg))
            /\ isThinking' = SetState(isThinking, FALSE)
    /\ UNCHANGED << language, autoReply, isThinkingRef, tcAutoReply, oteEntries,
                    tcEntries, mounted, gate >>

\* queryAI from the synthesis response on. `await audio.play()` resumes when
\* playback has started, and setIsThinking(false) follows at once; a failure
\* status, an empty blob or a rejected play() is logged and ends the same way.
ACP_ttsResponse(r, plays) ==
    /\ chatRuns[r].pc = "tts"
    /\ chatRuns' = [ chatRuns EXCEPT ![r].pc = IF plays THEN "playing" ELSE "done" ]
    /\ isThinking' = SetState(isThinking, FALSE)
    /\ UNCHANGED << language, autoReply, isThinkingRef, tcAutoReply, oteEntries,
                    tcEntries, mounted, messages, gate >>

\* The answer audio reaches its end (audio.onended).
ACP_audioEnded(r) ==
    /\ chatRuns[r].pc = "playing"
    /\ chatRuns' = [ chatRuns EXCEPT ![r].pc = "done" ]
    /\ UNCHANGED << language, autoReply, isThinking, isThinkingRef, tcAutoReply,
                    oteEntries, tcEntries, mounted, messages, gate >>

\* handleSend with the text of the input field as its input. It runs in a click
\* or keydown: React renders the setIsThinking(true) of queryAI and runs the
\* effects of that render before the event is over, so the ref is copied here.
ACP_handleSend(input) ==
    /\ mounted
    /\ IF Trim(input) = <<>> \/ isThinking
       THEN UNCHANGED << isThinking, isThinkingRef, chatRuns, messages >>
       ELSE /\ ACP_queryAI(input, "typed", entries)
            /\ isThinkingRef' = isThinking'
    /\ UNCHANGED << language, autoReply, tcAutoReply, oteEntries, tcEntries, mounted,
                    gate >>

\* onTranscriptEntry as the transcribeChunk that calls it captured it:
\* captured.ar is the autoReply of the render in which that onTranscriptEntry
\* was created, captured.es the entries of that render, which its
\* handleAutoReply, queryAI and getDiscussionContext closed over.
ACP_onTranscriptEntry(captured, text) ==
    IF ~captured.ar \/ isThinkingRef
    THEN UNCHANGED << isThinking, chatRuns, messages >>
    ELSE ACP_queryAI(text, "ambient", captured.es)

\* The auto-reply button. onTranscriptEntry is recreated ([autoReply]), around
\* the handleAutoReply of this render; the transcribeChunk of
\* useAmbientListener is not ([opts.language]).
ACP_toggleAutoReply ==
    /\ mounted
    /\ autoReply' = ~autoReply
    /\ oteEntries' = entries
    /\ UNCHANGED << language, isThinking, isThinkingRef, tcAutoReply, tcEntries, mounted,
                    chatRuns, messages, gate >>

\* The language buttons. A change of language recreates transcribeChunk, which
\* captures the opts, and so the onTranscriptEntry, of that render.
ACP_setLanguage(l) ==
    /\ mounted
    /\ l # language
    /\ language' = l
    /\ tcAutoReply' = autoReply
    /\ tcEntries' = oteEntries
    /\ UNCHANGED << autoReply, isThinking, isThinkingRef, oteEntries, mounted, chatRuns,
                    messages, gate >>

\* ------------------------------------------------------- useAmbientListener

\* Recorders created or still to be created by a started capture.
AlBudget == Len(alRecorders) + Len(alMic)

\* startListening up to its await of getUserMedia; the call carries the
\* transcribeChunk it was created with.
AL_startListening ==
    /\ AlBudget < MaxRecorders
    /\ alMic' = Append(alMic, [ ar |-> tcAutoReply, es |-> tcEntries ])
    /\ UNCHANGED << isListening, entries, streamRef, recorderRef, chunksRef,
                    intervalRef, idCounter, alStreams, alRecorders, alTimers, alStt >>

\* startRecorder of the startListening call that acquired `stream`.
AL_startRecorder(recs, stream, captured) ==
    /\ alRecorders' = Append(recs, [ st |-> "recording", stream |-> stream,
                                     ar |-> captured.ar, es |-> captured.es,
                                     by |-> "none", blob |-> 0 ])
    /\ recorderRef' = Len(recs) + 1
    /\ chunksRef' = 0

\* startListening after getUserMedia resolved.
AL_micGranted(i) ==
    /\ alMic' = SubSeq(alMic, 1, i - 1) \o SubSeq(alMic, i + 1, Len(alMic))
    /\ alStreams' = Append(alStreams, [ active |-> TRUE ])
    /\ streamRef' = Len(alStreams) + 1
    /\ AL_startRecorder(alRecorders, Len(alStreams) + 1, alMic[i])
    /\ isListening' = SetState(isListening, TRUE)
    /\ intervalRef' = Len(alStreams) + 1
    /\ alTimers' = alTimers \cup { Len(alStreams) + 1 }
    /\ UNCHANGED << entries, idCounter, alStt >>

\* startListening after getUserMedia rejected.
AL_micDenied(i) ==
    /\ alMic' = SubSeq(alMic, 1, i - 1) \o SubSeq(alMic, i + 1, Len(alMic))
    /\ isListening' = SetState(isListening, FALSE)
    /\ UNCHANGED << entries, streamRef, recorderRef, chunksRef, intervalRef, idCounter,
                    alStreams, alRecorders, alTimers, alStt >>

\* A tick of an interval that is set: harvestAndRestart stops the current
\* recorder. The stop event starts the next recorder, so a tick is taken only
\* while the bound leaves room for one.
AL_harvestAndRestart ==
    /\ recorderRef # Null
    /\ alRecorders[recorderRef].st = "recording"
    /\ AlBudget < MaxRecorders
    /\ alRecorders' = [ alRecorders EXCEPT ![recorderRef].st = "stopping",
                                           ![recorderRef].by = "tick" ]
    /\ UNCHANGED << isListening, entries, streamRef, recorderRef, chunksRef,
                    intervalRef, idCounter, alMic, alStreams, alTimers, alStt >>

AL_tick(t) ==
    /\ t \in alTimers
    /\ AL_harvestAndRestart

\* transcribeChunk without the test of blob.size.
AL_transcribeChunk_NoThreshold(k, blobSize) ==
    Append(alStt, [ rec |-> k, status |-> "pending" ])

\* transcribeChunk up to its await of the fetch: a blob under the threshold is
\* skipped, any other is posted (the resulting log of requests).
AL_transcribeChunk(k, blobSize) ==
    IF blobSize < MinBytes
    THEN alStt
    ELSE Append(alStt, [ rec |-> k, status |-> "pending" ])

\* A stop handler that opens the next segment only while no answer is awaited.
AL_recorderOnStop_IdleOnly(k, size) ==
    /\ alRecorders[k].st = "stopping"
    /\ LET blobSize == IF size > 0 THEN chunksRef + size ELSE chunksRef
           stopped == [ alRecorders EXCEPT ![k].st = "inactive", ![k].blob = blobSize ]
       IN  /\ alStt' = AL_transcribeChunk(k, blobSize)
           /\ IF streamRef # Null /\ alStreams[streamRef].active /\ ~isThinking
              THEN /\ AlBudget < MaxRecorders
                   /\ AL_startRecorder(stopped, alRecorders[k].stream, alRecorders[k])
              ELSE /\ alRecorders' = stopped
                   /\ chunksRef' = 0
                   /\ UNCHANGED recorderRef
    /\ UNCHANGED << isListening, entries, streamRef, intervalRef, idCounter, alMic,
                    alStreams, alTimers >>

\* The stopped recorder's dataavailable and stop events: the data is pushed when
\* it is not empty, the blob of all chunks goes to transcribeChunk, and a new
\* recorder is started on this call's stream when streamRef holds an active stream.
AL_recorderOnStop(k, size) ==
    /\ alRecorders[k].st = "stopping"
    /\ LET blobSize == IF size > 0 THEN chunksRef + size ELSE chunksRef
           stopped == [ alRecorders EXCEPT ![k].st = "inactive", ![k].blob = blobSize ]
       IN  /\ alStt' = AL_transcribeChunk(k, blobSize)
           /\ IF streamRef # Null /\ alStreams[streamRef].active
              THEN /\ AlBudget < MaxRecorders
                   /\ AL_startRecorder(stopped, alRecorders[k].stream, alRecorders[k])
              ELSE /\ alRecorders' = stopped
                   /\ chunksRef' = 0
                   /\ UNCHANGED recorderRef
    /\ UNCHANGED << isListening, entries, streamRef, intervalRef, idCounter, alMic,
                    alStreams, alTimers >>

\* stopListening that also gives up the requests still awaiting their response.
AL_stopListening_Aborting ==
    /\ alTimers' = IF intervalRef # Null THEN alTimers \ { intervalRef } ELSE alTimers
    /\ intervalRef' = Null
    /\ alRecorders' = IF recorderRef # Null /\ alRecorders[recorderRef].st = "recording"
                      THEN [ alRecorders EXCEPT ![recorderRef].st = "stopping",
                                                ![recorderRef].by = "stopListening" ]
                      ELSE alRecorders
    /\ alStreams' = IF streamRef # Null
                    THEN [ alStreams EXCEPT ![streamRef].active = FALSE ]
                    ELSE alStreams
    /\ streamRef' = Null
    /\ recorderRef' = Null
    /\ isListening' = FALSE
    /\ alStt' = [ i \in DOMAIN alStt |->
                    IF alStt[i].status = "pending"
                    THEN [ alStt[i] EXCEPT !.status = "failed" ] ELSE alStt[i] ]
    /\ UNCHANGED << entries, chunksRef, idCounter, alMic >>

AL_stopListening ==
    /\ alTimers' = IF intervalRef # Null THEN alTimers \ { intervalRef } ELSE alTimers
    /\ intervalRef' = Null
    /\ alRecorders' = IF recorderRef # Null /\ alRecorders[recorderRef].st = "recording"
                      THEN [ alRecorders EXCEPT ![recorderRef].st = "stopping",
                                                ![recorderRef].by = "stopListening" ]
                      ELSE alRecorders
    /\ alStreams' = IF streamRef # Null
                    THEN [ alStreams EXCEPT ![streamRef].active = FALSE ]
                    ELSE alStreams
    /\ streamRef' = Null
    /\ recorderRef' = Null
    /\ isListening' = FALSE
    /\ UNCHANGED << entries, chunksRef, idCounter, alMic, alStt >>

\* The Listen / Stop button of AIChatPanel.
ACP_clickListen ==
    /\ mounted
    /\ IF isListening THEN AL_stopListening ELSE AL_startListening

\* clearTranscript: setEntries([]).
\* A clear that also ends the capture's listening flag.
AL_clearTranscript_Stopping ==
    /\ entries' = <<>>
    /\ isListening' = FALSE
    /\ UNCHANGED << streamRef, recorderRef, chunksRef, intervalRef,
                    idCounter, alMic, alStreams, alRecorders, alTimers, alStt >>

AL_clearTranscript ==
    /\ entries' = <<>>
    /\ UNCHANGED << isListening, streamRef, recorderRef, chunksRef, intervalRef,
                    idCounter, alMic, alStreams, alRecorders, alTimers, alStt >>

\* The clear button of AIChatPanel, rendered while entries.length > 0.
ACP_clickClear ==
    /\ mounted
    /\ Len(entries) > 0
    /\ AL_clearTranscript

\* The transcription collaborator's responses to a chunk: a failure, or a
\* success body, {transcript: text} or one without the field.
AlTexts == { <<>>, <<" ">>, <<"a", " ">> }

AlSttResponses ==
    { [ ok |-> FALSE, text |-> <<>> ] }
    \cup { [ ok |-> TRUE, text |-> t ] : t \in AlTexts \cup { Undefined } }

\* What the collaborator answered, told from the response alone: a failure, a
\* transcript that is missing or has nothing but spaces in it, or a text.
SttKind(resp) ==
    IF ~resp.ok THEN "failed"
    ELSE IF resp.text = Undefined THEN "blank"
    ELSE IF \A j \in DOMAIN resp.text : resp.text[j] = " " THEN "blank"
    ELSE "text"

\* The response's text taken as it comes.
AL_transcriptText_NoTrim(resp) == resp.text

\* data.transcript?.trim()
AL_transcriptText(resp) ==
    IF resp.text = Undefined THEN Undefined ELSE Trim(resp.text)

\* The new entry put in front of the log.
AL_setEntries_Prepending(prev, entry) == << entry >> \o prev

\* The new entry put before the last one.
AL_setEntries_BeforeLast(prev, entry) ==
    IF prev = <<>> THEN << entry >>
    ELSE SubSeq(prev, 1, Len(prev) - 1) \o << entry, prev[Len(prev)] >>

\* Date.now() is read twice for each entry, for its id and for its timestamp,
\* by a clock the hook does not control: the readings never go back. An entry
\* of the model keeps its text and, as id, the idCounter it was made with; the
\* entry made with idCounter c took the readings number 2c and 2c + 1.
Times == 0 .. MaxClock

\* Some clock gives t at its reading number p and u at its reading number q.
ClockAllows(p, t, q, u) ==
    /\ p < q => t <= u
    /\ q < p => u <= t
    /\ p = q => t = u

\* An id made of the reading alone.
AL_entryId_TimeOnly(now, counter) == << "t", now >>

\* `t-${Date.now()}-${idCounter.current++}`
AL_entryId(now, counter) == << "t", now, counter >>

\* The numbers of the readings that made entry.id and entry.timestamp.
AL_idReading(entry) == 2 * entry.id

AL_timestampReading(entry) == 2 * entry.id + 1

\* setEntries((prev) => [...prev, entry])
AL_setEntries(prev, entry) == SetState(prev, Append(prev, entry))

\* The entry is appended and handed to nobody.
AL_onTranscript_Skipped(captured, text) ==
    UNCHANGED << isThinking, chatRuns, messages, gate >>

\* opts.onTranscript?.(entry): the onTranscriptEntry of AIChatPanel that this
\* transcribeChunk captured; gate keeps how the entry was published.
AL_onTranscript(captured, text) ==
    /\ ACP_onTranscriptEntry(captured, text)
    /\ gate' = [ n |-> gate.n + 1, toggle |-> autoReply, phase |-> ChatPhase,
                 forwarded |-> Len(chatRuns') > Len(chatRuns),
                 listening |-> isListening ]

\* transcribeChunk from the response on: a failure and a falsy text are
\* skipped; any other text becomes an entry, which is appended and handed to
\* the onTranscript this transcribeChunk captured. The request keeps what the
\* collaborator answered.
AL_sttResponse(i, resp) ==
    /\ alStt[i].status = "pending"
    /\ alStt' = [ alStt EXCEPT ![i].status = SttKind(resp) ]
    /\ IF ~resp.ok \/ ~Truthy(AL_transcriptText(resp))
       THEN UNCHANGED << entries, idCounter, isThinking, chatRuns, messages, gate >>
       ELSE /\ entries' = AL_setEntries(entries, [ id |-> idCounter,
                                                    text |-> AL_transcriptText(resp) ])
            /\ idCounter' = idCounter + 1
            /\ AL_onTranscript(alRecorders[alStt[i].rec], AL_transcriptText(resp))
    /\ UNCHANGED << isListening, streamRef, recorderRef, chunksRef, intervalRef, alMic,
                    alStreams, alRecorders, alTimers >>
    /\ UNCHANGED << language, autoReply, isThinkingRef, tcAutoReply, oteEntries,
                    tcEntries, mounted >>

\* useVoiceRAG, VoicePanel, PresentContent and the proxy route take no step.
VoiceIdle == UNCHANGED << voiceVars, panelVars, pageVars, pxCalls, lastOp >>

ChatNext ==
    \/ ACP_clickListen /\ UNCHANGED chatVars /\ VoiceIdle
    \/ ACP_toggleAutoReply /\ UNCHANGED ambientVars /\ VoiceIdle
    \/ \E l \in { "en", "hi" } : ACP_setLanguage(l) /\ UNCHANGED ambientVars /\ VoiceIdle
    \/ \E t \in Texts : ACP_handleSend(t) /\ UNCHANGED ambientVars /\ VoiceIdle
    \/ ACP_syncThinkingRef /\ UNCHANGED ambientVars /\ VoiceIdle
    \/ \E r \in DOMAIN chatRuns : \E ok \in BOOLEAN :
          ACP_ragResponse(r, ok) /\ UNCHANGED ambientVars /\ VoiceIdle
    \/ \E r \in DOMAIN chatRuns : \E plays \in BOOLEAN :
          ACP_ttsResponse(r, plays) /\ UNCHANGED ambientVars /\ VoiceIdle
    \/ \E r \in DOMAIN chatRuns : ACP_audioEnded(r) /\ UNCHANGED ambientVars /\ VoiceIdle
    \/ \E i \in DOMAIN alMic : AL_micGranted(i) /\ UNCHANGED chatVars /\ VoiceIdle
    \/ \E i \in DOMAIN alMic : AL_micDenied(i) /\ UNCHANGED chatVars /\ VoiceIdle
    \/ \E t \in alTimers : AL_tick(t) /\ UNCHANGED chatVars /\ VoiceIdle
    \/ \E k \in DOMAIN alRecorders : \E size \in SegSizes :
          AL_recorderOnStop(k, size) /\ UNCHANGED chatVars /\ VoiceIdle
    \/ \E i \in DOMAIN alStt : \E resp \in AlSttResponses :
          AL_sttResponse(i, resp) /\ VoiceIdle

SpecChat == Init /\ [][ChatNext]_vars

\* useAmbientListener under an AIChatPanel whose buttons other than Listen / Stop
\* are left alone: the capture session, its timer, its segments and their
\* transcription, and the cycles the published entries start.
AmbientNext ==
    \/ ACP_clickListen /\ UNCHANGED chatVars /\ VoiceIdle
    \/ \E i \in DOMAIN alMic : AL_micGranted(i) /\ UNCHANGED chatVars /\ VoiceIdle
    \/ \E i \in DOMAIN alMic : AL_micDenied(i) /\ UNCHANGED chatVars /\ VoiceIdle
    \/ \E t \in alTimers : AL_tick(t) /\ UNCHANGED chatVars /\ VoiceIdle
    \/ \E k \in DOMAIN alRecorders : \E size \in SegSizes :
          AL_recorderOnStop(k, size) /\ UNCHANGED chatVars /\ VoiceIdle
    \/ \E i \in DOMAIN alStt : \E resp \in AlSttResponses :
          AL_sttResponse(i, resp) /\ VoiceIdle
    \/ ACP_clickClear /\ UNCHANGED chatVars /\ VoiceIdle
    \/ ACP_syncThinkingRef /\ UNCHANGED ambientVars /\ VoiceIdle
    \/ \E r \in DOMAIN chatRuns : \E ok \in BOOLEAN :
          ACP_ragResponse(r, ok) /\ UNCHANGED ambientVars /\ VoiceIdle
    \/ \E r \in DOMAIN chatRuns : \E plays \in BOOLEAN :
          ACP_ttsResponse(r, plays) /\ UNCHANGED ambientVars /\ VoiceIdle
    \/ \E r \in DOMAIN chatRuns : ACP_audioEnded(r) /\ UNCHANGED ambientVars /\ VoiceIdle

SpecAmbient == Init /\ [][AmbientNext]_vars

\* ------------------------------------------------------------ PresentContent

\* The active slide changes (setActiveIdx): <AIChatPanel key={activeSlide.id}>
\* is unmounted and another instance is mounted for the new slide. Neither
\* AIChatPanel nor useAmbientListener has an effect cleanup, so nothing else
\* happens to the instance that is unmounted, the one modelled here. What the
\* page keeps of its own (slides, activeIdx) is the matter of SpecPage.
PC_setActiveIdx ==
    /\ mounted
    /\ mounted' = FALSE
    /\ UNCHANGED << language, autoReply, isThinking, isThinkingRef, tcAutoReply,
                    oteEntries, tcEntries, chatRuns, messages, gate >>

\* The decks that cd_slides can hold, JSON.parse(raw): the slides by their ids,
\* the empty deck among them.
Decks == { [ i \in 1 .. n |-> i ] : n \in 0 .. MaxSlides }

\* The demo slide that is shown when cd_slides holds nothing.
DemoSlide == "demo"

\* What cd_theme can hold; the empty text stands for null as well.
SavedThemes == { "", "professional", "modern" }

\* The keys handleKey tells apart, and one it ignores.
Keys == { "ArrowRight", "ArrowDown", "ArrowLeft", "ArrowUp", "v", "Enter" }

\* The effects of the first render: the deck and the theme are loaded from
\* localStorage, and handleKey is registered for keydown. hasRaw: cd_slides
\* holds an item.
PC_mountEffect(hasRaw, deck, savedTheme) ==
    /\ ~pcEffects
    /\ pcEffects' = TRUE
    /\ slides' = IF hasRaw THEN deck ELSE << DemoSlide >>
    /\ themeName' = IF savedTheme = "" THEN "professional" ELSE savedTheme
    /\ UNCHANGED << activeIdx, showPanel >>

\* handleKey: three ifs in a row on e.key.
PC_handleKey(key) ==
    /\ pcEffects
    /\ activeIdx' =
          IF key \in { "ArrowRight", "ArrowDown" } THEN Min(activeIdx + 1, Len(slides) - 1)
          ELSE IF key \in { "ArrowLeft", "ArrowUp" } THEN Max(activeIdx - 1, 0)
          ELSE activeIdx
    /\ showPanel' = IF key = "v" THEN ~showPanel ELSE showPanel
    /\ UNCHANGED << slides, themeName, pcEffects >>

\* The Prev button, disabled when activeIdx === 0.
PC_clickPrev ==
    /\ pcEffects
    /\ activeIdx # 0
    /\ activeIdx' = Max(0, activeIdx - 1)
    /\ UNCHANGED << slides, showPanel, themeName, pcEffects >>

\* The Next button, disabled when activeIdx === slides.length - 1.
PC_clickNext ==
    /\ pcEffects
    /\ activeIdx # Len(slides) - 1
    /\ activeIdx' = Min(Len(slides) - 1, activeIdx + 1)
    /\ UNCHANGED << slides, showPanel, themeName, pcEffects >>

\* The dot of slide i, one for each slide.
PC_clickDot(i) ==
    /\ pcEffects
    /\ i \in 0 .. (Len(slides) - 1)
    /\ activeIdx' = i
    /\ UNCHANGED << slides, showPanel, themeName, pcEffects >>

\* The panels and the hooks take no step.
PanelsIdle == UNCHANGED << voiceVars, panelVars, pxCalls, lastOp, chatVars, ambientVars >>

\* PresentContent on its own: the deck is loaded and the presenter moves
\* through it with the keys, the two buttons and the dots.
PageNext ==
    \/ \E hasRaw \in BOOLEAN : \E deck \in Decks : \E savedTheme \in SavedThemes :
          PC_mountEffect(hasRaw, deck, savedTheme) /\ PanelsIdle
    \/ \E key \in Keys : PC_handleKey(key) /\ PanelsIdle
    \/ PC_clickPrev /\ PanelsIdle
    \/ PC_clickNext /\ PanelsIdle
    \/ \E i \in 0 .. (MaxSlides - 1) : PC_clickDot(i) /\ PanelsIdle

SpecPage == Init /\ [][PageNext]_vars

\* ------------------------------------------------------------ API proxy route

\* The body of a Response that has none (res.body === null).
NullBody == "(null)"

\* The statuses for which the Response constructor takes no body.
NullBodyStatuses == { 101, 204, 205, 304 }

\* What fetch resolves with: the backend's status and body, a 502 of the
\* backend's own among them.
BackendResponses ==
    { [ status |-> st, body |-> b ] : st \in { 200, 404, 500, 502 }, b \in { "", "data" } }
      \cup { [ status |-> st, body |-> NullBody ] : st \in { 204, 304 } }

\* The outcomes of await fetch(url, ...): it resolves, or it throws.
FetchOutcomes ==
    { [ threw |-> FALSE, res |-> res ] : res \in BackendResponses }
      \cup { [ threw |-> TRUE, res |-> [ status |-> 0, body |-> NullBody ] ] }

\* No fetch was made.
NoFetch == [ threw |-> FALSE, res |-> [ status |-> 0, body |-> NullBody ] ]

\* NextResponse.json({ error: "Backend unreachable" }, { status: 502 })
Unreachable == [ status |-> 502, body |-> "{\"error\":\"Backend unreachable\"}" ]

\* new NextResponse(body, { status, headers }) throws a RangeError for a status
\* outside 200..599 and a TypeError for a body with a null body status.
NextResponseThrows(body, status) ==
    \/ status < 200
    \/ status > 599
    \/ body # NullBody /\ status \in NullBodyStatuses

\* What a handler answers after its fetch, with the catch clause of the mutant
\* left out: the exception escapes.
PX_afterFetch_NoCatch(outcome) ==
    IF outcome.threw \/ NextResponseThrows(outcome.res.body, outcome.res.status)
    THEN [ pc |-> "escaped", resp |-> [ status |-> 0, body |-> NullBody ] ]
    ELSE [ pc |-> "returned", resp |-> outcome.res ]

\* What a handler answers after its fetch: the backend's status and body in a
\* new NextResponse, or what the catch clause returns.
PX_afterFetch(outcome) ==
    IF outcome.threw \/ NextResponseThrows(outcome.res.body, outcome.res.status)
    THEN [ pc |-> "returned", resp |-> Unreachable ]
    ELSE [ pc |-> "returned", resp |-> outcome.res ]

\* A request arrives. GET and DELETE call fetch at once; POST first reads the
\* request's content type and awaits its body.
PX_call(method, multipart) ==
    /\ Len(pxCalls) < MaxRequests
    /\ method \in { "GET", "DELETE" } => ~multipart
    /\ pxCalls' = Append(pxCalls,
          [ method |-> method, multipart |-> multipart,
            pc |-> IF method = "POST" THEN "body" ELSE "fetch",
            fetched |-> NoFetch,
            resp |-> [ status |-> 0, body |-> NullBody ] ])

\* POST: await req.arrayBuffer() or await req.text() settles; when it rejects
\* the catch clause answers and no fetch is made.
PX_bodyRead(k, ok) ==
    /\ pxCalls[k].pc = "body"
    /\ pxCalls' = [ pxCalls EXCEPT ![k] =
          IF ok THEN [ @ EXCEPT !.pc = "fetch" ]
          ELSE [ @ EXCEPT !.pc = "returned", !.resp = Unreachable ] ]

\* await fetch(url, ...) settles and the handler returns.
PX_fetchSettled(k, outcome) ==
    /\ pxCalls[k].pc = "fetch"
    /\ pxCalls' = [ pxCalls EXCEPT ![k] =
          [ @ EXCEPT !.pc = PX_afterFetch(outcome).pc,
                     !.resp = PX_afterFetch(outcome).resp,
                     !.fetched = outcome ] ]

\* Everything but the route takes no step.
RouteOnly == UNCHANGED << voiceVars, panelVars, pageVars, lastOp, chatVars, ambientVars >>

\* The proxy route on its own: requests arrive and the backend answers them,
\* or cannot be reached, in any order.
ProxyNext ==
    \/ \E method \in { "GET", "POST", "DELETE" } : \E multipart \in BOOLEAN :
          PX_call(method, multipart) /\ RouteOnly
    \/ \E k \in DOMAIN pxCalls : \E ok \in BOOLEAN : PX_bodyRead(k, ok) /\ RouteOnly
    \/ \E k \in DOMAIN pxCalls : \E outcome \in FetchOutcomes :
          PX_fetchSettled(k, outcome) /\ RouteOnly

SpecProxy == Init /\ [][ProxyNext]_vars

\* -------------------------------------------------- PresentContent and a panel

\* The AIChatPanel of one slide, until and after the slide is changed.
SlideNext ==
    \/ AmbientNext
    \/ PC_setActiveIdx /\ UNCHANGED ambientVars /\ VoiceIdle

SpecSlide == Init /\ [][SlideNext]_vars

\* ------------------------------------------------------------ harvest loop

\* useVoiceRAG and VoicePanel are as they were constructed.
VoicePristine ==
    /\ lastOp = "init"
    /\ vrMic = 0
    /\ vrRecorders = <<>>
    /\ vrRuns = <<>>

\* AIChatPanel and useAmbientListener have started nothing yet.
ChatPristine ==
    /\ alMic = <<>>
    /\ alRecorders = <<>>
    /\ chatRuns = <<>>

\* useAmbientListener under an AIChatPanel in which a question may be typed
\* before anything else is done: the harvest loop with a cycle in progress
\* that no entry started.
HarvestNext ==
    \/ \E t \in Texts :
          ACP_handleSend(t) /\ ChatPristine /\ UNCHANGED ambientVars /\ VoiceIdle
    \/ AmbientNext

SpecHarvest == Init /\ [][HarvestNext]_vars

\* The collaborators of queryAI answer and the answer audio ends.
ACP_events ==
    \/ \E r \in DOMAIN chatRuns : \E ok \in BOOLEAN :
          ACP_ragResponse(r, ok) /\ UNCHANGED ambientVars /\ VoiceIdle
    \/ \E r \in DOMAIN chatRuns : \E plays \in BOOLEAN :
          ACP_ttsResponse(r, plays) /\ UNCHANGED ambientVars /\ VoiceIdle
    \/ \E r \in DOMAIN chatRuns : ACP_audioEnded(r) /\ UNCHANGED ambientVars /\ VoiceIdle

\* The texts an entry can have: trimmed and not empty.
EntryTexts == { Trim(t) : t \in AlTexts } \ { <<>> }

\* queryAI on its own: typed questions, and onTranscriptEntry called by the
\* transcribeChunk that holds it with the text of any entry at any moment, the
\* capture that publishes the entries left out.
AskNext ==
    \/ \E t \in Texts : ACP_handleSend(t) /\ UNCHANGED ambientVars /\ VoiceIdle
    \/ \E t \in EntryTexts :
          /\ mounted
          /\ ACP_onTranscriptEntry([ ar |-> tcAutoReply, es |-> tcEntries ], t)
          /\ UNCHANGED << language, autoReply, isThinkingRef, tcAutoReply, oteEntries,
                          tcEntries, mounted, gate >>
          /\ UNCHANGED ambientVars /\ VoiceIdle
    \/ ACP_toggleAutoReply /\ UNCHANGED ambientVars /\ VoiceIdle
    \/ \E l \in { "en", "hi" } : ACP_setLanguage(l) /\ UNCHANGED ambientVars /\ VoiceIdle
    \/ ACP_syncThinkingRef /\ UNCHANGED ambientVars /\ VoiceIdle
    \/ \E r \in DOMAIN chatRuns : \E ok \in BOOLEAN :
          ACP_ragResponse(r, ok) /\ UNCHANGED ambientVars /\ VoiceIdle
    \/ \E r \in DOMAIN chatRuns : \E plays \in BOOLEAN :
          ACP_ttsResponse(r, plays) /\ UNCHANGED ambientVars /\ VoiceIdle
    \/ \E r \in DOMAIN chatRuns : ACP_audioEnded(r) /\ UNCHANGED ambientVars /\ VoiceIdle

\* Every request of queryAI is answered in the end.
SpecAsk == Init /\ [][AskNext]_vars /\ WF_vars(ACP_events)

\* --------------------------------------------------------------- either panel

\* The page shows one of the two panels: a behaviour is a behaviour of
\* VoicePanel or a behaviour of AIChatPanel.
PanelsNext ==
    \/ VoiceNext /\ ChatPristine
    \/ AmbientNext /\ VoicePristine

SpecPanels == Init /\ [][PanelsNext]_vars

\* ------------------------------------------------------------------ fairness

\* The collaborators' and the browser's events of useVoiceRAG: the answer to
\* the microphone request, a stopped recorder's stop event, the responses to
\* the three requests, the end or the error of a playing audio.
VR_events ==
    \/ \E i \in DOMAIN vrMicCapt : VR_micGranted(i) /\ ChatIdle
    \/ \E i \in DOMAIN vrMicCapt : VR_micDenied(i) /\ ChatIdle
    \/ \E k \in DOMAIN vrRecorders : \E size \in SegSizes :
          VR_recorderOnStop(k, size) /\ ChatIdle
    \/ \E r \in DOMAIN vrRuns : \E resp \in SttResponses :
          VR_sttResponse(r, resp) /\ ChatIdle
    \/ \E r \in DOMAIN vrRuns : \E resp \in RagResponses :
          VR_ragResponse(r, resp) /\ ChatIdle
    \/ \E r \in DOMAIN vrRuns : \E resp \in TtsResponses :
          VR_ttsResponse(r, resp) /\ ChatIdle
    \/ \E r \in DOMAIN vrRuns : VR_audioEnded(r) /\ ChatIdle
    \/ \E r \in DOMAIN vrRuns : VR_audioError(r) /\ ChatIdle

\* VoicePanel and useVoiceRAG where every request eventually returns and every
\* playing audio eventually ends or fails: an event that can happen does.
SpecVoiceLive == Init /\ [][VoiceNext]_vars /\ WF_vars(VR_events)

\* VoicePanel's onAnswer on its own: called with the transcript of any render
\* and with any answer the hook can hand it.
HistoryNext ==
    \E q \in Texts : \E a \in Answers \cup { Undefined } :
        /\ nRecorded < MaxAnswers
        /\ VP_onAnswer(q, a)
        /\ UNCHANGED << voiceVars, pageVars, pxCalls, lastOp, chatVars, ambientVars >>

SpecHistory == Init /\ [][HistoryNext]_vars

\* ================================================================== claims

VrActiveRuns == { r \in DOMAIN vrRuns : VrActive(r) }

\* C2 (as claimed): in useVoiceRAG at most one answer cycle, a processAudio or
\* askText run with an outstanding request or playing audio, is active at a time.
C2_AtMostOneActiveCycle == Cardinality(VrActiveRuns) <= 1

\* C5 (as claimed): whenever state is "speaking", answer holds a non-empty text.
C5_SpeakingHasAnswer == state = "speaking" => Truthy(answer)

\* C6: a text question submitted through handleTextAsk while state is speaking,
\* thinking or listening starts no askText run (so issues no retrieval request)
\* and leaves state, transcript and answer unchanged.
C6_TextRejectedUnlessIdle ==
    [][ (lastOp' = "handleTextAsk" /\ state \in { "speaking", "thinking", "listening" })
          => /\ vrRuns' = vrRuns
             /\ state' = state
             /\ transcript' = transcript
             /\ answer' = answer ]_vars

\* C6 witness: a question was submitted and state is still speaking, the first
\* cycle's synthesis request still outstanding.
C6_Witness ==
    /\ lastOp = "handleTextAsk"
    /\ state = "speaking"
    /\ Len(vrRuns) = 1
    /\ vrRuns[1].pc = "tts"

\* C7: stopSpeaking (the mic button's handler in state "speaking") sets state to
\* "idle" and leaves answer, sources, transcript and error unchanged.
C7_StopSpeakingKeepsAnswer ==
    [][ (lastOp' = "handleMicClick" /\ state = "speaking")
          => /\ state' = "idle"
             /\ UNCHANGED << answer, sources, transcript, error >> ]_vars

\* C7 witness: the mic button was clicked while an answer was being played; the
\* audio is paused, state is idle and the answer text is still there.
C7_Witness ==
    /\ lastOp = "handleMicClick"
    /\ state = "idle"
    /\ Truthy(answer)
    /\ \E r \in DOMAIN vrRuns : vrRuns[r].audio = "paused"

\* C8 (as claimed): a non-success response of /api/rag/query ends the cycle in
\* state "error" with a non-empty error message, in processAudio and in askText;
\* the cycle does not go on to "speaking".
C8_RetrievalFailureIsError ==
    [][ \A r \in DOMAIN vrRuns :
          (vrRuns[r].rag = "none" /\ vrRuns'[r].rag = "fail")
            => /\ state' = "error"
               /\ error' # ""
               /\ vrRuns'[r].pc = "done" ]_vars

\* C9 (as claimed): no segment smaller than the minimum-byte threshold is posted
\* to the transcription collaborator, in manual capture as in continuous capture:
\* every transcription request carries a blob of at least 1000 bytes.
C9_NoSmallSegmentTranscribed ==
    /\ \A r \in DOMAIN vrRuns : vrRuns[r].pc = "stt" => vrRuns[r].blob >= MinBytes
    /\ \A i \in DOMAIN alStt : alRecorders[alStt[i].rec].blob >= MinBytes

ChatCyclesInProgress == { r \in DOMAIN chatRuns : ChatInProgress(r) }

\* C1 (as claimed): in AIChatPanel at most one queryAI cycle is in progress at
\* any time, a cycle lasting from its retrieval request until its answer audio
\* has finished playing.
C1_AtMostOneChatCycle == Cardinality(ChatCyclesInProgress) <= 1

\* C3 (as claimed): a published entry is forwarded to queryAI if and only if,
\* as it is published, the auto-reply toggle is on and no cycle is in progress.
C3_ForwardedIffToggleOnAndIdle ==
    gate.n > 0 => (gate.forwarded <=> (gate.toggle /\ gate.phase = "idle"))

\* C4 (as claimed): an entry published while a cycle is Thinking or Speaking is
\* appended to the log and is not forwarded to queryAI.
C4_BusyEntryNotForwarded ==
    [][ (gate'.n > gate.n /\ gate'.phase \in { "thinking", "speaking" })
          => /\ ~gate'.forwarded
             /\ Len(entries') = Len(entries) + 1 ]_vars

\* The requests posted for the segment of recorder k.
AlRequestsOf(k) == { i \in DOMAIN alStt : alStt[i].rec = k }

AlStopStep == isListening /\ ~isListening' /\ alMic' = alMic

\* C11 (as claimed): once stopListening has run, no harvest timer is set, no
\* recorder is recording, every acquired stream is stopped and isListening is
\* false.
C11_StopReleasesEverything ==
    [][ AlStopStep
          => /\ alTimers' = {}
             /\ \A k \in DOMAIN alRecorders' : alRecorders'[k].st # "recording"
             /\ \A j \in DOMAIN alStreams' : ~alStreams'[j].active
             /\ ~isListening' ]_vars

\* C12 (as claimed): startListening takes effect only when no capture session
\* is active and no earlier call awaits the microphone; any other call is a
\* no-op, in useAmbientListener and in useVoiceRAG.
C12_SecondStartIsNoOp ==
    [][ /\ Len(alMic') > Len(alMic)
              => /\ alMic = <<>>
                 /\ \A j \in DOMAIN alStreams : ~alStreams[j].active
        /\ vrMic' > vrMic
              => /\ vrMic = 0
                 /\ \A k \in DOMAIN vrRecorders : vrRecorders[k].st # "recording" ]_vars

\* Request i gets, in this step, a response of the given kind.
AlAnswered(i, kind) == alStt[i].status = "pending" /\ alStt'[i].status = kind

\* C13: a transcription result that is empty, missing or whitespace-only
\* creates no entry, leaves entries unchanged and invokes no onTranscript (no
\* entry is published, no cycle is started).
C13_BlankResultMakesNoEntry ==
    [][ \A i \in DOMAIN alStt :
          AlAnswered(i, "blank")
            => /\ entries' = entries
               /\ idCounter' = idCounter
               /\ gate' = gate
               /\ chatRuns' = chatRuns ]_vars

\* C13 witness: a request was answered with a blank transcript and nothing has
\* been logged or published.
C13_Witness ==
    /\ \E i \in DOMAIN alStt : alStt[i].status = "blank"
    /\ entries = <<>>
    /\ gate.n = 0

\* C15: a request answered with a non-empty text makes exactly one new entry,
\* with that text trimmed, appended at the end of entries and handed once to
\* onTranscript; and no entry is made, none published, in any other step.
C15_OneEntryPerTextResult ==
    [][ /\ \A i \in DOMAIN alStt :
              AlAnswered(i, "text")
                => /\ Len(entries') = Len(entries) + 1
                   /\ SubSeq(entries', 1, Len(entries)) = entries
                   /\ entries'[Len(entries')].id = idCounter
                   /\ Truthy(entries'[Len(entries')].text)
                   /\ idCounter' = idCounter + 1
                   /\ gate'.n = gate.n + 1
        /\ (Len(entries') > Len(entries) \/ gate' # gate \/ idCounter' # idCounter)
              => \E i \in DOMAIN alStt : AlAnswered(i, "text") ]_vars

\* C15 witness: one request was answered with a text; one entry is in the log
\* and one was published.
C15_Witness ==
    /\ Cardinality({ i \in DOMAIN alStt : alStt[i].status = "text" }) = 1
    /\ Len(entries) = 1
    /\ gate.n = 1

\* Everything but the entries log.
AlButEntries ==
    << voiceVars, panelVars, pageVars, pxCalls, lastOp, chatVars, isListening, streamRef, recorderRef, chunksRef,
       intervalRef, idCounter, alMic, alStreams, alRecorders, alTimers, alStt >>

\* C16: in every step other than clearTranscript (the one step that changes
\* entries and nothing else) the log before the step is a prefix of the log
\* after it.
C16_EntriesAppendOnly ==
    [][ AlButEntries' # AlButEntries
          => /\ Len(entries') >= Len(entries)
             /\ SubSeq(entries', 1, Len(entries)) = entries ]_vars

\* C16 witness: a second entry was appended behind the first.
C16_Witness ==
    /\ Len(entries) = 2
    /\ entries[1].id = 0
    /\ entries[2].id = 1

\* C17: stopListening leaves the dispatched requests as they are, and a
\* request answered with a text while isListening is false has its entry
\* appended to the log.
C17_DispatchedRequestCompletesAfterStop ==
    [][ /\ AlStopStep => alStt' = alStt
        /\ \A i \in DOMAIN alStt :
              (AlAnswered(i, "text") /\ ~isListening)
                => /\ Len(entries') = Len(entries) + 1
                   /\ SubSeq(entries', 1, Len(entries)) = entries ]_vars

\* C17 witness: the first segment's request was dispatched when its recorder's
\* stop event started the second recorder; stopListening stopped that second
\* recorder; the request was then answered with a text, and its entry was
\* published with isListening false.
C17_Witness ==
    /\ ~isListening
    /\ Len(alRecorders) = 2
    /\ alRecorders[2].by = "stopListening"
    /\ { i \in DOMAIN alStt : alStt[i].status = "text" } = { 1 }
    /\ alStt[1].rec = 1
    /\ gate.n = 1
    /\ ~gate.listening
    /\ Len(entries) = 1

\* C18 (as claimed): at most one answer audio is playing at any time, among
\* those started by useVoiceRAG and among those started by queryAI.
C18_AtMostOneAudioPlaying ==
    /\ Cardinality({ r \in DOMAIN vrRuns : vrRuns[r].audio = "playing" }) <= 1
    /\ Cardinality({ r \in DOMAIN chatRuns : chatRuns[r].pc = "playing" }) <= 1

\* A text with nothing but spaces in it (the empty text is one).
AllSpaces(t) == \A j \in DOMAIN t : t[j] = " "

\* C14: when processAudio gets a transcription result that is empty or
\* whitespace-only, state becomes "idle", error is left as it was (empty, when
\* it was empty), the run ends there, with no retrieval and no synthesis
\* request, and no other run is started.
C14_BlankTranscriptBackToIdle ==
    [][ \A r \in DOMAIN vrRuns :
          (vrRuns[r].stt = "none" /\ vrRuns'[r].stt = "ok" /\ AllSpaces(transcript'))
            => /\ state' = "idle"
               /\ error' = error
               /\ vrRuns'[r].pc = "done"
               /\ vrRuns'[r].rag = "none"
               /\ vrRuns'[r].audio = "none"
               /\ Len(vrRuns') = Len(vrRuns) ]_vars

\* C14 witness: the one processAudio run got a whitespace-only transcript and
\* ended; state is idle, error is empty, nothing was asked of retrieval.
C14_Witness ==
    /\ Len(vrRuns) = 1
    /\ vrRuns[1].stt = "ok"
    /\ vrRuns[1].pc = "done"
    /\ vrRuns[1].rag = "none"
    /\ transcript = << " " >>
    /\ state = "idle"
    /\ error = ""

\* Run r's synthesis request or its playback fails in this step: the run ends
\* at the synthesis response, or its playing audio fires its error event.
VrPlaybackFails(r) ==
    \/ vrRuns[r].pc = "tts" /\ vrRuns'[r].pc = "done"
    \/ vrRuns[r].audio = "playing" /\ vrRuns'[r].audio = "failed"

\* C19 (as claimed): when synthesis or playback fails after the answer was
\* received, the answer text is unchanged, an error is surfaced and state
\* returns to "idle".
C19_PlaybackFailureKeepsAnswerAndIdles ==
    [][ \A r \in DOMAIN vrRuns :
          VrPlaybackFails(r)
            => /\ answer' = answer
               /\ error' # ""
               /\ state' = "idle" ]_vars

\* C20 (as claimed): every stage failure (microphone refused, transcription,
\* retrieval, synthesis or playback failure) sets state to "error" and error to
\* a non-empty message.
C20_EveryFailureIsError ==
    [][ ( \/ vrMic' < vrMic /\ Len(vrRecorders') = Len(vrRecorders)
          \/ \E r \in DOMAIN vrRuns :
                \/ vrRuns[r].stt = "none" /\ vrRuns'[r].stt = "fail"
                \/ vrRuns[r].rag = "none" /\ vrRuns'[r].rag = "fail"
                \/ VrPlaybackFails(r) )
          => /\ state' = "error"
             /\ error' # "" ]_vars

\* A request is issued in this step by an event: a new run posts its first
\* request, or a run goes on to its retrieval or its synthesis request.
VrRequestIssued ==
    \/ Len(vrRuns') > Len(vrRuns)
    \/ \E r \in DOMAIN vrRuns :
          /\ vrRuns'[r].pc # vrRuns[r].pc
          /\ vrRuns'[r].pc \in { "rag", "tts" }

\* C21 (as claimed): after a failed transcription, retrieval or synthesis
\* request of useVoiceRAG (state "error" with that failure's message, which a
\* new capture would have cleared), no request is issued by a step that is not
\* a user action.
C21_NoRequestAfterFailureWithoutUser ==
    [][ ( /\ state = "error"
          /\ error \notin { "", "Microphone access denied" }
          /\ lastOp = "event"
          /\ lastOp' = "event" )
          => ~VrRequestIssued ]_vars

\* C22 (as claimed): in state "error" a submitted text question starts a new
\* cycle, state "thinking", and a mic click starts a new capture with error
\* cleared.
C22_RetryAcceptedFromError ==
    [][ /\ (state = "error" /\ lastOp' = "handleTextAsk")
              => /\ Len(vrRuns') = Len(vrRuns) + 1
                 /\ state' = "thinking"
        /\ (state = "error" /\ lastOp' = "handleMicClick")
              => /\ vrMic' = vrMic + 1
                 /\ error' = "" ]_vars

\* One manual voice question and nothing else, nothing of it failed, cancelled
\* aside: one capture at most, one processAudio run at most, no error.
VrSolo ==
    /\ vrMic + Len(vrRecorders) <= 1
    /\ Len(vrRuns) <= 1
    /\ error = ""
    /\ \A r \in DOMAIN vrRuns :
          /\ vrRuns[r].kind = "audio"
          /\ vrRuns[r].stt # "fail"
          /\ vrRuns[r].rag # "fail"
          /\ vrRuns[r].audio # "failed"

\* C24: in a manual voice question whose stages all succeed, state is set
\* "listening" when the recorder is started, "thinking" when it is stopped
\* (and again when its stop event runs), stays "thinking" at a non-empty
\* transcript, is set "speaking" at the retrieval answer, stays so when the
\* audio starts, and is set "idle" when the audio ends; and state changes in no
\* other way than idle to listening, listening to thinking, thinking to
\* speaking and speaking to idle (a blank transcript: thinking to idle).
C24_ManualQuestionStateSequence ==
    [][ (VrSolo' /\ state # "error")
          => /\ Len(vrRecorders') > Len(vrRecorders)
                  => state = "idle" /\ state' = "listening"
             /\ \A k \in DOMAIN vrRecorders :
                  /\ (vrRecorders[k].st = "recording" /\ vrRecorders'[k].st = "stopping")
                        => state = "listening" /\ state' = "thinking"
                  /\ (vrRecorders[k].st = "stopping" /\ vrRecorders'[k].st = "inactive")
                        => state = "thinking" /\ state' = "thinking"
             /\ \A r \in DOMAIN vrRuns :
                  /\ (vrRuns[r].pc = "stt" /\ vrRuns'[r].pc = "rag")
                        => state = "thinking" /\ state' = "thinking"
                  /\ (vrRuns[r].pc = "rag" /\ vrRuns'[r].pc = "tts")
                        => state = "thinking" /\ state' = "speaking"
                  /\ (vrRuns[r].pc = "tts" /\ vrRuns'[r].pc = "playing")
                        => state' = state
                  /\ (vrRuns[r].audio = "playing" /\ vrRuns'[r].audio = "ended")
                        => state' = "idle"
             /\ state' # state
                  => << state, state' >> \in
                        { << "idle", "listening" >>, << "listening", "thinking" >>,
                          << "thinking", "speaking" >>, << "speaking", "idle" >>,
                          << "thinking", "idle" >> }
             /\ (state = "thinking" /\ state' = "idle")
                  => \E r \in DOMAIN vrRuns :
                        vrRuns[r].pc = "stt" /\ AllSpaces(transcript') ]_vars

\* C24 witness: the one manual question went through capture, transcription,
\* retrieval, synthesis and playback, and its audio has ended; state is idle.
C24_Witness ==
    /\ vrMic = 0
    /\ Len(vrRecorders) = 1
    /\ Len(vrRuns) = 1
    /\ vrRuns[1].kind = "audio"
    /\ vrRuns[1].stt = "ok"
    /\ vrRuns[1].rag = "ok"
    /\ vrRuns[1].audio = "ended"
    /\ state = "idle"
    /\ error = ""

\* C25 (as claimed): the stop event of a recorder that stopListening stopped
\* starts exactly one processAudio run when the segment has at least 1000
\* bytes and none when it is smaller; a mic click in state "listening" with no
\* recorder recording changes nothing.
C25_StopYieldsOneRunOrNone ==
    [][ /\ \A k \in DOMAIN vrRecorders :
              (vrRecorders[k].st = "stopping" /\ vrRecorders'[k].st = "inactive")
                => Len(vrRuns') - Len(vrRuns) =
                      IF audioChunksRef' >= MinBytes THEN 1 ELSE 0
        /\ ( /\ lastOp' = "handleMicClick"
             /\ state = "listening"
             /\ \A k \in DOMAIN vrRecorders : vrRecorders[k].st # "recording" )
              => UNCHANGED voiceVars ]_vars

\* C27 (as claimed): the only cycle there is was cancelled by stopSpeaking
\* (state "idle" while its synthesis request is pending or its audio exists);
\* then no event makes its audio play and none changes state.
C27_CancelledCycleStaysSilent ==
    [][ ( /\ Len(vrRuns) = 1
          /\ vrMic = 0
          /\ \A k \in DOMAIN vrRecorders : vrRecorders[k].st = "inactive"
          /\ state = "idle"
          /\ vrRuns[1].pc \in { "tts", "playing" }
          /\ lastOp' = "event" )
          => /\ state' = "idle"
             /\ vrRuns'[1].audio # "playing" ]_vars

\* C28 (as claimed): whenever state is "thinking", state is later "idle" or
\* "error", the events that can happen happening.
C28_ThinkingLeadsToIdleOrError ==
    (state = "thinking") ~> (state \in { "idle", "error" })

\* C23 (as claimed): once the slide has changed, no harvest timer of the old
\* panel is set, none of its streams is live, none of its recorders is
\* recording, and from then on no transcription request, no retrieval request
\* and no playback is started for it.
C23_SlideChangeDiscardsConversation ==
    [][ ~mounted'
          => /\ alTimers' = {}
             /\ \A j \in DOMAIN alStreams' : ~alStreams'[j].active
             /\ \A k \in DOMAIN alRecorders' : alRecorders'[k].st # "recording"
             /\ ~mounted
                  => /\ Len(alStt') = Len(alStt)
                     /\ Len(chatRuns') = Len(chatRuns)
                     /\ \A r \in DOMAIN chatRuns :
                          chatRuns'[r].pc = "playing" => chatRuns[r].pc = "playing" ]_vars

\* C26: when the microphone is refused, useVoiceRAG sets state "error" and a
\* non-empty error and creates no recorder (state is not set "listening");
\* useAmbientListener, having acquired no stream, leaves isListening false and
\* creates no recorder and no timer, its refs as they were.
C26_MicRefusedStartsNothing ==
    [][ /\ lastOp' = "micDenied"
              => /\ state' = "error"
                 /\ error' # ""
                 /\ vrRecorders' = vrRecorders
                 /\ mediaRecorderRef' = mediaRecorderRef
                 /\ vrRuns' = vrRuns
        /\ (Len(alMic') < Len(alMic) /\ Len(alStreams') = Len(alStreams))
              => /\ ~isListening'
                 /\ alRecorders' = alRecorders
                 /\ alTimers' = alTimers
                 /\ UNCHANGED << streamRef, recorderRef, intervalRef >> ]_vars

\* C26 witness: the first microphone request of useVoiceRAG was refused; state
\* is "error" with the message, and there is no recorder.
C26_Witness ==
    /\ lastOp = "micDenied"
    /\ state = "error"
    /\ error = "Microphone access denied"
    /\ vrRecorders = <<>>
    /\ vrMic = 0

\* C29 (as claimed): the retrieval request of a queryAI cycle carries, as its
\* discussion context, the texts of the last ten entries of the log as it is
\* when the question is issued (the entry being published counted or not).
C29_ContextIsCurrentLog ==
    [][ Len(chatRuns') > Len(chatRuns)
          => chatRuns'[Len(chatRuns')].ctx \in
                { GetDiscussionContext(entries), GetDiscussionContext(entries') } ]_vars

C31_ClearEmptiesLogOnly ==
    [][ /\ Len(entries') < Len(entries)
              => /\ entries' = <<>>
                 /\ UNCHANGED << isListening, streamRef, recorderRef, chunksRef,
                                 intervalRef, idCounter, alMic, alStreams,
                                 alRecorders, alTimers, alStt, chatVars >>
        /\ \A i \in DOMAIN alStt :
              (AlAnswered(i, "text") /\ entries = <<>> /\ idCounter > 0)
                => /\ Len(entries') = 1
                   /\ entries'[1].id = idCounter ]_vars

\* C31 witness: the log, in which an entry had been made, was cleared while
\* listening; it is empty and the capture is still running.
C31_Witness ==
    /\ isListening
    /\ entries = <<>>
    /\ idCounter = 1
    /\ streamRef # Null
    /\ alStreams[streamRef].active
    /\ recorderRef # Null
    /\ alRecorders[recorderRef].st = "recording"
    /\ alTimers # {}

\* C32: history never holds more than 5 pairs: it holds as many as were
\* recorded, up to 5; a recording puts the new pair first and keeps behind it,
\* in their order, the pairs that were there, but for the fifth of five.
C32_HistoryKeepsNewestFive ==
    [][ /\ Len(history') = Min(nRecorded', HistoryCap)
        /\ nRecorded' > nRecorded
              => /\ Len(history') = Min(Len(history) + 1, HistoryCap)
                 /\ \A i \in 2..Len(history') : history'[i] = history[i - 1] ]_vars

\* C32 witness: a sixth pair has been recorded; five are held, the newest
\* differs from the oldest one held.
C32_Witness ==
    /\ nRecorded = 6
    /\ Len(history) = HistoryCap
    /\ history[1] # history[HistoryCap]

\* C33 (as claimed): the pair recorded when a cycle's retrieval answer arrives
\* holds that cycle's question (the transcript of a voice question, the text
\* of a typed one) and that answer.
C33_PairHoldsItsOwnQuestion ==
    [][ nRecorded' > nRecorded
          => \E r \in DOMAIN vrRuns :
                /\ vrRuns[r].pc = "rag"
                /\ vrRuns'[r].pc = "tts"
                /\ history'[1] = [ q |-> vrRuns[r].q, a |-> answer' ] ]_vars

\* The messages of one role.
MsgsOf(role) == { i \in DOMAIN messages : messages[i].role = role }

\* C34: a step that starts a queryAI cycle starts one, appends its user
\* message and sets isThinking; the step in which a cycle's retrieval request
\* is answered appends one AI message, the answer or the apology; nothing else
\* changes messages, so there is one user message per cycle and one AI message
\* per answered cycle; and every cycle whose retrieval request is pending is
\* later answered with isThinking false.
C34_OneCyclePerQuestion ==
    /\ [][ /\ Len(chatRuns') > Len(chatRuns)
                 => /\ Len(chatRuns') = Len(chatRuns) + 1
                    /\ Len(messages') = Len(messages) + 1
                    /\ SubSeq(messages', 1, Len(messages)) = messages
                    /\ messages'[Len(messages')].role = "user"
                    /\ isThinking'
           /\ \A r \in DOMAIN chatRuns :
                 (chatRuns[r].pc = "rag" /\ chatRuns'[r].pc # "rag")
                    => /\ Len(messages') = Len(messages) + 1
                       /\ SubSeq(messages', 1, Len(messages)) = messages
                       /\ messages'[Len(messages')] \in { AiMsg, ErrMsg }
           /\ messages' # messages
                 => \/ Len(chatRuns') > Len(chatRuns)
                    \/ \E r \in DOMAIN chatRuns :
                          chatRuns[r].pc = "rag" /\ chatRuns'[r].pc # "rag"
           /\ Cardinality(MsgsOf("user")') = Len(chatRuns')
           /\ Cardinality(MsgsOf("ai")') =
                 Cardinality({ r \in DOMAIN chatRuns' : chatRuns'[r].pc # "rag" }) ]_vars
    /\ \A r \in 1..MaxChatRuns :
          (r \in DOMAIN chatRuns /\ chatRuns[r].pc = "rag")
             ~> (r \in DOMAIN chatRuns /\ chatRuns[r].pc # "rag" /\ ~isThinking)

\* C34 witness: two ambient questions, the second forwarded while the first
\* one's retrieval request was pending; both cycles have been answered, one
\* with the apology, and isThinking is false.
C34_Witness ==
    /\ Len(chatRuns) = 2
    /\ \A r \in DOMAIN chatRuns : chatRuns[r].source = "ambient"
    /\ \A r \in DOMAIN chatRuns : chatRuns[r].pc # "rag"
    /\ Cardinality(MsgsOf("user")) = 2
    /\ Cardinality(MsgsOf("ai")) = 2
    /\ \E i \in DOMAIN messages : messages[i] = ErrMsg
    /\ messages[2].role = "user"
    /\ ~isThinking

\* C35 (as claimed): the slide_context field of every retrieval request that
\* queryAI has posted is the slideContext prop, nothing added.
C35_SlideContextUnchanged ==
    \A r \in DOMAIN chatRuns : ACP_slideContextField(chatRuns[r].ctx) = SlideContext

\* C36: an answered request's entry is appended behind the entries that are in
\* the log when the answer arrives, whichever segment it is of, and is made
\* with the idCounter of that moment; so, whatever the clock, the timestamps
\* never decrease along the log.
C36_LogInCompletionOrder ==
    [][ /\ \A i \in DOMAIN alStt :
              AlAnswered(i, "text")
                => /\ Len(entries') = Len(entries) + 1
                   /\ SubSeq(entries', 1, Len(entries)) = entries
                   /\ entries'[Len(entries')].id = idCounter
                   /\ idCounter' = idCounter + 1
        /\ \A i, j \in DOMAIN entries' : \A t, u \in Times :
              ( /\ i < j
                /\ ClockAllows(AL_timestampReading(entries'[i]), t,
                               AL_timestampReading(entries'[j]), u) )
                => t <= u ]_vars

\* C36 witness: the request of the second segment has been answered and its
\* entry is in the log; the request of the first segment is still pending.
C36_Witness ==
    /\ Len(alStt) = 2
    /\ alStt[1].rec < alStt[2].rec
    /\ alStt[1].status = "pending"
    /\ alStt[2].status = "text"
    /\ Len(entries) = 1

\* C37: idCounter never decreases and each entry is made with the idCounter
\* of the moment, which is then increased; so, whatever the clock, the ids of
\* the entries made so far, in the log or cleared, are pairwise distinct.
C37_EntryIdsDistinct ==
    /\ [][ /\ idCounter' >= idCounter
           /\ \A i \in DOMAIN alStt :
                 AlAnswered(i, "text")
                   => /\ entries'[Len(entries')].id = idCounter
                      /\ idCounter' = idCounter + 1 ]_vars
    /\ [](\A e \in DOMAIN entries : entries[e].id < idCounter)
    /\ [](\A c, d \in 0 .. (idCounter - 1) :
            c # d => \A t, u \in Times :
                        ClockAllows(AL_idReading([ id |-> c ]), t,
                                    AL_idReading([ id |-> d ]), u)
                          => AL_entryId(t, c) # AL_entryId(u, d))

\* C37 witness: a second entry was made after the log, which held the first,
\* was cleared.
C37_Witness ==
    /\ idCounter = 2
    /\ Len(entries) = 1
    /\ entries[1].id = 1

\* C38 (as claimed): on the presentation page 0 <= activeIdx and
\* activeIdx <= max(0, slides.length - 1) at every moment, the empty deck
\* included.
C38_ActiveIdxInRange ==
    /\ 0 <= activeIdx
    /\ activeIdx <= Max(0, Len(slides) - 1)

\* C39: a handler of the proxy route whose fetch has settled has returned; its
\* answer is the backend's status and body when the fetch resolved, and
\* status 502 with the body {error: "Backend unreachable"} when it threw. No
\* invocation ends with an exception.
C39_RelayOr502 ==
    \A k \in DOMAIN pxCalls :
        /\ pxCalls[k].pc # "escaped"
        /\ pxCalls[k].fetched # NoFetch
              => /\ pxCalls[k].pc = "returned"
                 /\ pxCalls[k].resp =
                       IF pxCalls[k].fetched.threw THEN Unreachable
                       ELSE pxCalls[k].fetched.res

\* C39 witness: a GET whose fetch threw was answered 502, and a POST whose
\* fetch resolved with the backend's own 502 was answered with the backend's
\* body.
C39_Witness ==
    \E j, k \in DOMAIN pxCalls :
        /\ pxCalls[j].method = "GET"
        /\ pxCalls[j].fetched.threw
        /\ pxCalls[j].resp = Unreachable
        /\ pxCalls[k].method = "POST"
        /\ pxCalls[k].fetched # NoFetch
        /\ ~pxCalls[k].fetched.threw
        /\ pxCalls[k].resp = [ status |-> 502, body |-> "data" ]

====
